---- MODULE Spec2Model ----
(***************************************************************************)
(* SharedModal (frontend/src/components/Modals/SharedModal.tsx): a         *)
(* controlled modal.  The caller owns the request (open, title,            *)
(* description, children, onClose); the component renders it and routes    *)
(* dismissal gestures to onClose.                                          *)
(*                                                                         *)
(* JavaScript values are modelled by tags:                                 *)
(*   "undefined", "null", "num0" (the number 0), "strEmpty" (""),          *)
(*   "strText" (a non-empty string), "element" (a React element).          *)
(* "none" marks an output slot in which nothing is rendered.               *)
(***************************************************************************)
EXTENDS Integers, Sequences, FiniteSets, TLC

VARIABLES open, title, description, children, screen, calls, pending

vars == <<open, title, description, children, screen, calls, pending>>
request == <<open, title, description, children>>

\* Longest recorded history of onClose invocations.
MaxCalls == 2

TextValues == {"undefined", "strEmpty", "strText"}
ChildrenValues == {"undefined", "null", "num0", "strEmpty", "strText", "element"}

----------------------------------------------------------------------------
\* JavaScript / React semantics used by the component

\* ToBoolean(v): the falsy values are undefined, null, 0 and "".
Truthy(v) == v \notin {"undefined", "null", "num0", "strEmpty"}

\* What React puts on screen for the expression {v && <Element/>}:
\* the element when v is truthy; otherwise v itself is the child, and React
\* renders undefined, null and "" as nothing but the number 0 as the text "0".
AndElement(v, element) ==
    IF Truthy(v) THEN element
    ELSE IF v = "num0" THEN "text0" ELSE "none"

showInfoOnlyPresence(c) == c = "undefined"
showInfoOnly(c) == ~Truthy(c)

className(c) == IF showInfoOnly(c) THEN "!max-w-md" ELSE "w-full !max-w-2xl"

EmptyOutput ==
    [visible |-> FALSE, width |-> "none", header |-> FALSE, title |-> "none",
     description |-> "none", closeButton |-> FALSE, contentRegion |-> FALSE,
     content |-> "none", icon |-> FALSE, text |-> "none"]

\* {title && <DialogTitle>{title}</DialogTitle>}: the slot holds the title
\* shown, or "none".
TitleSlotUnguarded(t) == IF t = "undefined" THEN "none" ELSE t
TitleSlot(t) == IF AndElement(t, "element") = "element" THEN t ELSE "none"

DescriptionSlot(d) == IF AndElement(d, "element") = "element" THEN d ELSE "none"

\* The body handed to DialogContent.
DialogContent(t, d, c) ==
    LET info == showInfoOnly(c)
        region == AndElement(c, "element")
    IN [visible |-> TRUE,
        width |-> className(c),
        header |-> info,
        title |-> IF info THEN TitleSlot(t) ELSE "none",
        description |-> IF info THEN DescriptionSlot(d) ELSE "none",
        closeButton |-> info,
        contentRegion |-> region = "element",
        content |-> IF region = "element" THEN c ELSE "none",
        icon |-> region = "element",
        text |-> IF region = "text0" THEN "0" ELSE "none"]

\* The Dialog primitive: controlled by its open prop, mounts its content
\* only while open.
Dialog(o, body) == IF o THEN body ELSE EmptyOutput

SharedModalAlwaysOpen(o, t, d, c) == Dialog(TRUE, DialogContent(t, d, c))
SharedModalOpenWhenContent(o, t, d, c) == Dialog(o \/ Truthy(c), DialogContent(t, d, c))
SharedModal(o, t, d, c) == Dialog(o, DialogContent(t, d, c))

----------------------------------------------------------------------------
\* onClose invocations: who raised it and the argument list it received.

Call(source, args) == [source |-> source, args |-> args]

\* React calls an onClick handler with the click event.
ClickArgs == <<"MouseEvent">>
\* The Dialog primitive calls onOpenChange with the next open state; the only
\* change it raises without a trigger is the dismissal, open = false.
OpenChangeArgs == <<"false">>

Invoke(source, args) ==
    /\ Len(calls) < MaxCalls
    /\ calls' = Append(calls, Call(source, args))
    /\ pending' = pending + 1

Init ==
    /\ open \in BOOLEAN
    /\ title \in TextValues
    /\ description \in TextValues
    /\ children \in ChildrenValues
    /\ screen = SharedModal(open, title, description, children)
    /\ calls = <<>>
    /\ pending = 0

\* <Button onClick={onClose}>Close</Button>
ButtonClickMutatesRequest ==
    /\ screen.closeButton
    /\ Invoke("Button", ClickArgs)
    /\ open' = FALSE
    /\ screen' = SharedModal(FALSE, title, description, children)
    /\ UNCHANGED <<title, description, children>>
ButtonClick ==
    /\ screen.closeButton
    /\ Invoke("Button", ClickArgs)
    /\ UNCHANGED <<open, title, description, children, screen>>

\* <IconX onClick={onClose} />
IconXClick ==
    /\ screen.icon
    /\ Invoke("IconX", ClickArgs)
    /\ UNCHANGED <<open, title, description, children, screen>>

\* <Dialog open={open} onOpenChange={onClose}>: escape key
EscapeKeySelfClose ==
    /\ screen.visible
    /\ Invoke("Escape", OpenChangeArgs)
    /\ screen' = EmptyOutput
    /\ UNCHANGED <<open, title, description, children>>
EscapeKey ==
    /\ screen.visible
    /\ Invoke("Escape", OpenChangeArgs)
    /\ UNCHANGED <<open, title, description, children, screen>>

\* <Dialog open={open} onOpenChange={onClose}>: click outside the content
OutsideClickWhenClosed ==
    /\ Invoke("Outside", OpenChangeArgs)
    /\ UNCHANGED <<open, title, description, children, screen>>
OutsideClick ==
    /\ screen.visible
    /\ Invoke("Outside", OpenChangeArgs)
    /\ UNCHANGED <<open, title, description, children, screen>>

Gesture == ButtonClick \/ IconXClick \/ EscapeKey \/ OutsideClick

\* The caller renders a new request.
CallerRender(o, t, d, c) ==
    /\ pending = 0
    /\ <<o, t, d, c>> /= request
    /\ open' = o /\ title' = t /\ description' = d /\ children' = c
    /\ screen' = SharedModal(o, t, d, c)
    /\ UNCHANGED <<calls, pending>>

\* The caller reacts to the onClose invocations by closing.
CallerHandleDismiss ==
    /\ pending > 0
    /\ open' = FALSE
    /\ screen' = SharedModal(FALSE, title, description, children)
    /\ pending' = 0
    /\ UNCHANGED <<title, description, children, calls>>

\* The caller leaves the request as it is and renders it again.
CallerIgnoreDismiss ==
    /\ pending > 0
    /\ screen' = SharedModal(open, title, description, children)
    /\ pending' = 0
    /\ UNCHANGED <<open, title, description, children, calls>>

CallerRenders ==
    \E o \in BOOLEAN, t \in TextValues, d \in TextValues, c \in ChildrenValues :
        CallerRender(o, t, d, c)

Next ==
    \/ ButtonClick
    \/ IconXClick
    \/ EscapeKey
    \/ OutsideClick
    \/ CallerRenders
    \/ CallerHandleDismiss
    \/ CallerIgnoreDismiss

Spec == Init /\ [][Next]_vars

\* A caller that closes after every onClose invocation.
NextResponsive ==
    \/ ButtonClick
    \/ IconXClick
    \/ EscapeKey
    \/ OutsideClick
    \/ CallerRenders
    \/ CallerHandleDismiss

SpecResponsive ==
    Init /\ [][NextResponsive]_vars /\ WF_vars(CallerHandleDismiss)

----------------------------------------------------------------------------
\* Shorthands for the claims

LastCall == calls[Len(calls)]
Invoked == calls' /= calls
InvokedOnce == calls' = Append(calls, calls'[Len(calls')])
ContentAbsent(c) == c \in {"undefined", "null"}
TextShown(t) == t \notin {"undefined", "strEmpty"}
InfoRegionShown == screen.header /\ screen.closeButton
ContentRegionShown == screen.contentRegion /\ screen.icon

\* C1: a request with open = false renders nothing, whatever title,
\* description and children are.
C1_ClosedRendersNothing == ~open => screen = EmptyOutput
C1_Witness ==
    /\ ~open /\ children = "element" /\ title = "strText"
    /\ screen = EmptyOutput

\* C2: an open request whose content is supplied (any value other than
\* undefined/null, falsy ones such as 0 and "" included) renders the content
\* and the dismiss icon and neither title nor description.
C2_SuppliedContentIsContentMode ==
    (open /\ ~ContentAbsent(children)) =>
        /\ screen.content = children
        /\ screen.icon
        /\ ~screen.closeButton
        /\ screen.title = "none"
        /\ screen.description = "none"

\* C3: an open request without content renders the Close button and no
\* dismiss icon; the title is rendered iff it is provided and non-empty, and
\* so is the description, independently.
C3_InfoOnlyMode ==
    (open /\ ContentAbsent(children)) =>
        /\ screen.closeButton
        /\ ~screen.icon
        /\ screen.content = "none"
        /\ (screen.title /= "none") = TextShown(title)
        /\ (screen.description /= "none") = TextShown(description)
        /\ (screen.title /= "none" => screen.title = title)
        /\ (screen.description /= "none" => screen.description = description)
C3_Witness ==
    /\ open /\ ContentAbsent(children)
    /\ title = "strEmpty" /\ description = "strText"
    /\ screen.title = "none" /\ screen.description = "strText"
    /\ screen.closeButton

\* C4: activating the Close button or the dismiss icon calls onClose exactly
\* once, with no arguments.
C4_CloseActionCallsWithNoArguments ==
    [][(ButtonClick \/ IconXClick) =>
            (InvokedOnce /\ calls'[Len(calls')].args = <<>>)]_vars

\* C5: every dismissal gesture made while the overlay is open invokes
\* onClose exactly once, and the Dialog primitive's dismissal (escape,
\* outside click) reaches onClose with no arguments.
C5_EveryGestureForwardedWithNoArguments ==
    [][Gesture =>
        /\ InvokedOnce
        /\ (calls'[Len(calls')].source \in {"Escape", "Outside"}
                => calls'[Len(calls')].args = <<>>)]_vars

\* C6: the component never closes itself: the overlay is visible exactly
\* when the caller's open is true, a dismissal leaves the screen as it is,
\* and a caller that keeps the request gets the same output again.
C6_NeverClosesItself ==
    /\ [](screen.visible <=> open)
    /\ [][(Invoked \/ CallerIgnoreDismiss) => screen' = screen]_vars
C6_Witness ==
    /\ open /\ screen.visible
    /\ Len(calls) >= 2 /\ pending = 0

\* C7: onClose is invoked only for a signal raised while the overlay is
\* open, never for an open-change reporting open = true, and never while
\* open is false.
C7_OnlyOpenToClosedRequested ==
    [][Invoked =>
        /\ open /\ screen.visible
        /\ calls'[Len(calls')].args /= <<"true">>]_vars
C7_Witness ==
    /\ calls /= <<>> /\ LastCall.source = "Outside"
    /\ LastCall.args = <<"false">>
    /\ open /\ pending > 0

\* C8: in every open render exactly one of the info-only region and the
\* content region is rendered, the width agrees with the rendered region,
\* and the region follows the children of that render alone.
C8_ExactlyOneMode ==
    open =>
        /\ InfoRegionShown /= ContentRegionShown
        /\ screen.header = screen.closeButton
        /\ screen.contentRegion = screen.icon
        /\ (screen.width = "!max-w-md") = InfoRegionShown
        /\ (screen.width = "w-full !max-w-2xl") = ContentRegionShown
        /\ (ContentRegionShown => screen.content = children)
        /\ (InfoRegionShown => screen.content = "none")
C8_Witness ==
    /\ open /\ children = "num0" /\ calls /= <<>>
    /\ InfoRegionShown /\ ~ContentRegionShown
    /\ screen.width = "!max-w-md"

\* C9: onClose is invoked only by a dismissal gesture, never by a render,
\* and a gesture leaves the caller's open, title, description and children
\* unchanged.
C9_OnlySideEffectIsOnClose ==
    [][/\ Invoked => (Gesture /\ UNCHANGED request)
       /\ Gesture => UNCHANGED request
       /\ (request' /= request \/ screen' /= screen) => ~Invoked]_vars
C9_Witness ==
    /\ open /\ calls /= <<>> /\ LastCall.source = "Button"
    /\ pending > 0 /\ screen.closeButton

\* C10: with a caller that closes after every onClose invocation, a
\* dismissal gesture leads to the closed state with nothing rendered; while
\* closed, onClose is not invoked again, and only the caller reopens.
C10_DismissalLeadsToClosed ==
    /\ (pending > 0) ~> (~open /\ screen = EmptyOutput /\ pending = 0)
    /\ [][~open => ~Invoked]_vars
    /\ [][(~open /\ open') => CallerRenders]_vars
C10_Witness ==
    /\ pending >= 2 /\ open
    /\ calls[Len(calls) - 1].source = "Outside"
    /\ LastCall.source = "IconX"

TypeOK ==
    /\ open \in BOOLEAN
    /\ title \in TextValues
    /\ description \in TextValues
    /\ children \in ChildrenValues
    /\ Len(calls) <= MaxCalls
    /\ pending \in 0..MaxCalls
====
